---------------------------- MODULE Spec2Model ----------------------------
(* A model of ext-sort: the count-limited and the memory-limited chunk    *)
(* buffers (buffer.rs), the MessagePack run file (chunk.rs), the binary    *)
(* heap merger (merger.rs) and the external sorter that wires them         *)
(* together (sort.rs).                                                     *)
(*                                                                         *)
(* An item is a pair <<key, tag>>: the comparator looks at the key only,   *)
(* the tag records where the item came from, so that equal items stay      *)
(* distinguishable.  An outcome is a record [t, v]: t = "Ok" carries an    *)
(* item, t = "Err" carries an error value, t = "None" is end-of-sequence.  *)
EXTENDS Integers, Sequences, FiniteSets, TLC

(* ------------------------------ bounds --------------------------------- *)
\* longest input sequence handed to sort_by
MaxLen == 4
\* largest count limit of the LimitedBufferBuilder
MaxLimit == 2
\* most runs handed to a stand-alone merger
MaxRuns == 2
\* longest run handed to a stand-alone merger
MaxRunLen == 2

\* longest item sequence written to a single run file and read back
MaxChunkLen == 2
\* how many outcomes beyond the input's length a merger over a damaged run
\* file is asked for
MaxRepeat == 2

\* keys of the items: small, and one that needs a two-byte integer encoding
Keys == {0, 1, 200}

\* keys of the items of a stand-alone merger's runs
MergeKeys == {0, 1}

\* the integers of the items written to a single run file: one for each
\* integer encoding of up to three bytes
CodecInts == {-100, -1, 0, 200, 300}

VARIABLES
    input,           \* sort_by's input: a sequence of Ok/Err outcomes
    limit,           \* the builder's buffer_limit: a count, or a byte size
    reversed,        \* the comparator: ascending keys, or reversed
    policy,          \* "count" (LimitedBuffer) | "memory" (MemoryLimitedBuffer)
    preallocate,     \* LimitedBufferBuilder.preallocate
    sorter,          \* "unbuilt" | "alive" | "dropped" | "failed"
    new_result,      \* what ExternalSorter::new returned
    tmp_dir,         \* "none" | "exists" | "deleted"
    thread_pool,     \* "none" | "built" | "dropped"
    sorts_running,   \* number of par_sort_by calls the pool is working on
    open_files,      \* number of run files that exist (held by a descriptor)
    pc,              \* position inside sort_by
    pos,             \* number of input outcomes pulled so far
    chunk_buf,       \* the active buffer (LimitedBuffer.inner)
    capacity,        \* the capacity of the active buffer's vector
    current_size,    \* MemoryLimitedBuffer.current_size
    drained,         \* what the buffer's into_iter yielded, once consumed
    last_seal,       \* whether the buffer being sealed is the remainder
    external_chunks, \* sort_by's local vector of runs
    result,          \* what sort_by returned
    merger,          \* "none" | "alive" | "dropped"
    chunks,          \* BinaryHeapMerger.chunks
    items,           \* BinaryHeapMerger.items: heap entries <<item, idx>>
    initiated,       \* BinaryHeapMerger.initiated
    output,          \* the Some(..) values next() has returned, in order
    last,            \* what the most recent next() returned
    pulls            \* how many times the merger has called a chunk's next()

vars == <<input, limit, reversed, policy, preallocate, sorter, new_result,
          tmp_dir, thread_pool, sorts_running, open_files, pc, pos, chunk_buf,
          capacity,
          current_size, drained, last_seal, external_chunks, result, merger,
          chunks, items, initiated, output, last, pulls>>

cfgVars == <<input, limit, reversed, policy, preallocate>>
sorterVars == <<sorter, new_result, tmp_dir, thread_pool, sorts_running>>
bufVars == <<capacity, current_size, drained>>
callVars == <<pc, pos, chunk_buf, last_seal, external_chunks, result>>
mergerVars == <<chunks, items, initiated, output, last, pulls>>

(* ----------------------------- outcomes -------------------------------- *)
Ok(v) == [t |-> "Ok", v |-> v]
Err(e) == [t |-> "Err", v |-> e]
None == [t |-> "None", v |-> <<0, 0>>]
NoCall == [t |-> "NoCall", v |-> <<0, 0>>]

Min(a, b) == IF a <= b THEN a ELSE b

(* ---------------------------- comparator ------------------------------- *)
\* i32::cmp on the keys
cmp(a, b) == IF a < b THEN "Less" ELSE IF a > b THEN "Greater" ELSE "Equal"

\* Ordering::reverse
reverse(o) == IF o = "Less" THEN "Greater" ELSE IF o = "Greater" THEN "Less" ELSE o

\* the comparison closure handed to sort_by: compares the first field only
compare(rev, a, b) == IF rev THEN reverse(cmp(a[1], b[1])) ELSE cmp(a[1], b[1])

(* ------------------------------ buffer --------------------------------- *)
\* LimitedBufferBuilder::build: a fresh, empty buffer
BufferBuild == <<>>

Max(a, b) == IF a >= b THEN a ELSE b

\* LimitedBufferBuilder::build, the capacity of the vector it creates:
\* preallocate picks LimitedBuffer::new (Vec::new), the absence of it picks
\* LimitedBuffer::with_capacity (Vec::with_capacity(limit))
BuildCapacity(lim, prealloc) == IF prealloc THEN 0 ELSE lim

\* Vec::push under LimitedBuffer::push: the vector grows when it has no
\* spare slot (to at least the new length)
reserve(cap, len) == Max(cap, len + 1)

\* LimitedBuffer::push
push(buf, item) == Append(buf, item)

\* is_full with the test one item late
is_full_off_by_one(buf, lim) == Len(buf) > lim + 1

\* is_full that waits for the limit to be exceeded
is_full_exceeded(buf, lim) == Len(buf) > lim

\* LimitedBuffer::is_full
is_full(buf, lim) == Len(buf) >= lim

\* DeepSizeOf::deep_size_of of an item shaped like MyType of
\* test_memory_limited_buffer: an i64 and a String (8 + 24 bytes) that owns
\* as many heap bytes as the key says
deep_size_of(item) == 32 + item[1]

\* the size accounting that leaves out what the item owns on the heap
mem_push_shallow(size, item) == size + 32

\* MemoryLimitedBuffer::push, the size accounting
mem_push(size, item) == size + deep_size_of(item)

\* MemoryLimitedBuffer::is_full
mem_is_full(size, lim) == size >= lim

\* B::build of the configured builder, the capacity of the new buffer's
\* vector: MemoryLimitedBuffer::new creates Vec::new()
BuilderCapacity ==
    IF policy = "count" THEN BuildCapacity(limit, preallocate) ELSE 0

\* ChunkBuffer::is_full of the configured buffer
full(buf, size) ==
    IF policy = "count" THEN is_full(buf, limit) ELSE mem_is_full(size, limit)

\* into_iter that hands the items out from the back
into_iter_from_back(buf) == [i \in 1..Len(buf) |-> buf[Len(buf) + 1 - i]]

\* IntoIterator::into_iter of both buffers: the inner vector's iterator
into_iter(buf) == buf

(* --------------------------- parallel sort ----------------------------- *)
RECURSIVE merge_stable(_, _, _)
\* the merge of two sorted slices; on a tie the left slice's item goes first
merge_stable(rev, l, r) ==
    IF l = <<>> THEN r
    ELSE IF r = <<>> THEN l
    ELSE IF compare(rev, Head(r), Head(l)) = "Less"
         THEN <<Head(r)>> \o merge_stable(rev, l, Tail(r))
         ELSE <<Head(l)>> \o merge_stable(rev, Tail(l), r)

RECURSIVE merge_sort(_, _)
merge_sort(rev, s) ==
    IF Len(s) <= 1 THEN s
    ELSE LET h == Len(s) \div 2
         IN  merge_stable(rev, merge_sort(rev, SubSeq(s, 1, h)),
                               merge_sort(rev, SubSeq(s, h + 1, Len(s))))

\* par_sort_by leaving the slice as it is
par_sort_unsorted(rev, buf) == buf

\* par_sort_by that sorts but leaves items that compare Equal in the
\* reverse of their order in the slice
par_sort_unstable(rev, buf) ==
    merge_sort(rev, [i \in 1..Len(buf) |-> buf[Len(buf) + 1 - i]])

\* ParallelSliceMut::par_sort_by on the buffer's slice: a stable merge sort
par_sort_by(rev, buf) == merge_sort(rev, buf)

(* ------------------------ MessagePack run file ------------------------- *)
\* EncodeInt writing 128..255 as a single byte
EncodeIntNoU8(v) ==
    IF v >= 0 /\ v < 256 THEN <<v>>
    ELSE IF v < 0 /\ v >= -32 THEN <<256 + v>>
    ELSE IF v >= 256 /\ v < 65536 THEN <<205, v \div 256, v % 256>>
    ELSE IF v < -32 /\ v >= -128 THEN <<208, 256 + v>>
    ELSE <<209, ((65536 + v) \div 256) % 256, (65536 + v) % 256>>

\* rmp's most compact encoding of an integer of -32768..65535, big-endian
EncodeInt(v) ==
    IF v >= 0 /\ v < 128 THEN <<v>>
    ELSE IF v < 0 /\ v >= -32 THEN <<256 + v>>
    ELSE IF v >= 128 /\ v < 256 THEN <<204, v>>
    ELSE IF v >= 256 /\ v < 65536 THEN <<205, v \div 256, v % 256>>
    ELSE IF v < -32 /\ v >= -128 THEN <<208, 256 + v>>
    ELSE <<209, ((65536 + v) \div 256) % 256, (65536 + v) % 256>>

\* rmp_serde::encode::write of a pair: a two-element array
EncodeItem(item) == <<146>> \o EncodeInt(item[1]) \o EncodeInt(item[2])

RECURSIVE dump(_)
\* RmpExternalChunk::dump: every item, in iteration order
dump(its) == IF its = <<>> THEN <<>> ELSE EncodeItem(Head(its)) \o dump(Tail(its))

\* an integer read from bytes b at index i: [ok, v, next]; next is the index
\* after the last byte read (an unexpected end of file reads nothing more)
DecodeInt(b, i) ==
    IF i > Len(b) THEN [ok |-> FALSE, v |-> 0, next |-> i]
    ELSE LET m == b[i]
         IN  IF m < 128 THEN [ok |-> TRUE, v |-> m, next |-> i + 1]
             ELSE IF m >= 224 THEN [ok |-> TRUE, v |-> m - 256, next |-> i + 1]
             ELSE IF m = 204 THEN
                 IF i + 1 > Len(b) THEN [ok |-> FALSE, v |-> 0, next |-> i + 1]
                 ELSE [ok |-> TRUE, v |-> b[i + 1], next |-> i + 2]
             ELSE IF m = 208 THEN
                 IF i + 1 > Len(b) THEN [ok |-> FALSE, v |-> 0, next |-> i + 1]
                 ELSE [ok |-> TRUE, v |-> b[i + 1] - 256, next |-> i + 2]
             ELSE IF m = 205 \/ m = 209 THEN
                 IF i + 2 > Len(b)
                 THEN [ok |-> FALSE, v |-> 0, next |-> Min(i + 2, Len(b) + 1)]
                 ELSE [ok |-> TRUE,
                       v |-> b[i + 1] * 256 + b[i + 2] - (IF m = 209 THEN 65536 ELSE 0),
                       next |-> i + 3]
             ELSE [ok |-> FALSE, v |-> 0, next |-> i + 1]

\* rmp_serde::decode::from_read of a pair from bytes b: [t, v, n], n the
\* number of bytes consumed
DecodeItem(b) ==
    IF Len(b) = 0 THEN [t |-> "Err", v |-> <<0, 0>>, n |-> 0]
    ELSE IF b[1] # 146 THEN [t |-> "Err", v |-> <<0, 0>>, n |-> 1]
    ELSE LET k == DecodeInt(b, 2)
         IN  IF ~k.ok THEN [t |-> "Err", v |-> <<0, 0>>, n |-> k.next - 1]
             ELSE LET g == DecodeInt(b, k.next)
                  IN  IF ~g.ok THEN [t |-> "Err", v |-> <<0, 0>>, n |-> g.next - 1]
                      ELSE [t |-> "Ok", v |-> <<k.v, g.v>>, n |-> g.next - 1]


\* a run file as ExternalChunk::build leaves it: the dumped bytes, the reader
\* rewound to offset 0 and limited to the file length
ChunkOfFile(its) ==
    [kind |-> "file", data |-> dump(its), off |-> 0, limit |-> Len(dump(its))]

\* an in-memory fallible sequence (a Vec of Result) used as a merger input
ChunkOfVec(outs) == [kind |-> "vec", data |-> outs, off |-> 0, limit |-> 0]

\* next on a run file that takes a file with no bytes left for the end
FileNextEofAsNone(c) ==
    IF c.limit = 0 \/ c.off >= Len(c.data) THEN [out |-> None, chunk |-> c]
    ELSE LET upto == Min(Len(c.data), c.off + c.limit)
             d == DecodeItem(SubSeq(c.data, c.off + 1, upto))
         IN  [out |-> [t |-> d.t, v |-> d.v],
              chunk |-> [c EXCEPT !.off = @ + d.n, !.limit = @ - d.n]]

\* RmpExternalChunk::next on a run file: [out, chunk]
FileNext(c) ==
    IF c.limit = 0 THEN [out |-> None, chunk |-> c]
    ELSE LET upto == Min(Len(c.data), c.off + c.limit)
             d == DecodeItem(SubSeq(c.data, c.off + 1, upto))
         IN  [out |-> [t |-> d.t, v |-> d.v],
              chunk |-> [c EXCEPT !.off = @ + d.n, !.limit = @ - d.n]]

\* vec::IntoIter::next on an in-memory sequence: [out, chunk]
VecNext(c) ==
    IF c.off >= Len(c.data) THEN [out |-> None, chunk |-> c]
    ELSE [out |-> c.data[c.off + 1], chunk |-> [c EXCEPT !.off = @ + 1]]

\* C::IntoIter::next
ChunkNext(c) == IF c.kind = "file" THEN FileNext(c) ELSE VecNext(c)

\* the number of run files a vector of chunks holds open
NumFiles(cs) == Cardinality({i \in 1..Len(cs) : cs[i].kind = "file"})

(* ------------------------------ merger --------------------------------- *)
\* entry_cmp without the Reverse around the chunk index
entry_cmp_larger_idx_first(rev, e1, e2) ==
    LET c == compare(rev, e2[1], e1[1])
    IN  IF c # "Equal" THEN c ELSE cmp(e1[2], e2[2])

\* entry_cmp that looks at the items only
entry_cmp_ignores_idx(rev, e1, e2) == compare(rev, e2[1], e1[1])

\* entry_cmp without the Reverse around the item
entry_cmp_max_heap(rev, e1, e2) ==
    LET c == compare(rev, e1[1], e2[1])
    IN  IF c # "Equal" THEN c ELSE cmp(e2[2], e1[2])

\* Ord on the heap's entries (Reverse(OrderedWrapper), Reverse(idx)), an
\* entry being <<item, idx>>: lexicographic, both fields reversed
entry_cmp(rev, e1, e2) ==
    LET c == compare(rev, e2[1], e1[1])
    IN  IF c # "Equal" THEN c ELSE cmp(e2[2], e1[2])

\* the entries BinaryHeap::pop may return: the greatest ones
HeapMaxima(rev, h) ==
    {i \in 1..Len(h) : \A j \in 1..Len(h) : entry_cmp(rev, h[i], h[j]) # "Less"}

\* the heap without its i-th entry
HeapRemove(h, i) == SubSeq(h, 1, i - 1) \o SubSeq(h, i + 1, Len(h))

RECURSIVE populate(_, _, _)
\* the first-call loop that takes an Err head for the end of its chunk
populate_skips_errors(idx, cs, h) ==
    IF idx > Len(cs)
    THEN [chunks |-> cs, items |-> h, ret |-> None, pulls |-> Len(cs)]
    ELSE LET r == ChunkNext(cs[idx])
             cs2 == [cs EXCEPT ![idx] = r.chunk]
         IN  IF r.out.t = "Ok"
             THEN populate(idx + 1, cs2, Append(h, <<r.out.v, idx>>))
             ELSE populate(idx + 1, cs2, h)

\* next()'s first-call loop over the chunks from index idx on: the head of
\* each chunk is pushed; an Err head returns at once.  [chunks, items, ret],
\* and pulls, the chunks the loop has asked: it starts at the first one
populate(idx, cs, h) ==
    IF idx > Len(cs)
    THEN [chunks |-> cs, items |-> h, ret |-> None, pulls |-> Len(cs)]
    ELSE LET r == ChunkNext(cs[idx])
             cs2 == [cs EXCEPT ![idx] = r.chunk]
         IN  IF r.out.t = "None" THEN populate(idx + 1, cs2, h)
             ELSE IF r.out.t = "Ok"
                  THEN populate(idx + 1, cs2, Append(h, <<r.out.v, idx>>))
                  ELSE [chunks |-> cs2, items |-> h, ret |-> r.out,
                        pulls |-> idx]

\* what a next() call hands back to its caller
Yield(o) ==
    /\ last' = o
    /\ output' = IF o.t = "None" THEN output ELSE Append(output, o)

\* next() running its first-call loop whatever `initiated` says
initiate_every_call(init, cs, h) == populate(1, cs, h)

\* the head of next(): the first-call loop, skipped once `initiated` is set
initiate(init, cs, h) ==
    IF init THEN [chunks |-> cs, items |-> h, ret |-> None, pulls |-> 0]
    ELSE populate(1, cs, h)

\* BinaryHeapMerger::next
MergerNext ==
    /\ merger = "alive"
    /\ LET p == initiate(initiated, chunks, items)
       IN  IF p.ret.t = "Err"
           THEN /\ chunks' = p.chunks
                /\ items' = p.items
                /\ initiated' = initiated
                /\ pulls' = pulls + p.pulls
                /\ Yield(p.ret)
           ELSE IF p.items = <<>>
           THEN /\ chunks' = p.chunks
                /\ items' = p.items
                /\ initiated' = TRUE
                /\ pulls' = pulls + p.pulls
                /\ Yield(None)
           ELSE \E i \in HeapMaxima(reversed, p.items) :
                    LET e == p.items[i]
                        h == HeapRemove(p.items, i)
                        r == ChunkNext(p.chunks[e[2]])
                    IN  /\ chunks' = [p.chunks EXCEPT ![e[2]] = r.chunk]
                        /\ initiated' = TRUE
                        /\ pulls' = pulls + p.pulls + 1
                        /\ IF r.out.t = "Ok"
                           THEN items' = Append(h, <<r.out.v, e[2]>>) /\ Yield(Ok(e[1]))
                           ELSE IF r.out.t = "Err"
                           THEN items' = h /\ Yield(r.out)
                           ELSE items' = h /\ Yield(Ok(e[1]))
    /\ UNCHANGED <<cfgVars, bufVars, sorterVars, callVars, merger, open_files>>

\* DropMerger leaving the run files behind
DropMergerLeaksFiles ==
    /\ merger = "alive"
    /\ merger' = "dropped"
    /\ chunks' = <<>>
    /\ items' = <<>>
    /\ UNCHANGED <<cfgVars, bufVars, sorterVars, callVars, initiated, output, last,
                   pulls, open_files>>

\* drop of the merger: its chunks, and with them the run files, are closed
DropMerger ==
    /\ merger = "alive"
    /\ merger' = "dropped"
    /\ open_files' = open_files - NumFiles(chunks)
    /\ chunks' = <<>>
    /\ items' = <<>>
    /\ UNCHANGED <<cfgVars, bufVars, sorterVars, callVars, initiated, output, last,
                   pulls>>

(* ------------------------------ sorter --------------------------------- *)
\* the run list with the new run put in front
push_chunk_front(cs, c) == <<c>> \o cs

\* an early return that leaves the runs built so far open
drop_chunks_leaks(n, cs) == n

\* sort_by's early return drops its local external_chunks: every run in it
\* is dropped, which closes its file; n is the number of files that exist
drop_chunks(n, cs) == n - NumFiles(cs)

\* external_chunks.push in sort_by: the new run goes to the end of the list
push_chunk(cs, c) == Append(cs, c)

\* new that creates the temporary directory before the thread pool: a
\* failure of the pool then drops a directory that was already created
NewDirFirst ==
    /\ sorter = "unbuilt"
    /\ \E how \in {"ok", "pool_fails", "dir_fails"} :
           /\ new_result' = CASE how = "ok" -> "Ok"
                              [] how = "pool_fails" -> "ThreadPoolBuildError"
                              [] how = "dir_fails" -> "TempDir"
           /\ sorter' = IF how = "ok" THEN "alive" ELSE "failed"
           /\ thread_pool' = IF how = "ok" THEN "built" ELSE thread_pool
           /\ tmp_dir' = CASE how = "ok" -> "exists"
                           [] how = "pool_fails" -> "deleted"
                           [] how = "dir_fails" -> tmp_dir
    /\ UNCHANGED <<cfgVars, bufVars, sorts_running, callVars, merger, mergerVars,
                   open_files>>

\* ExternalSorter::new: the thread pool, then the temporary directory; a
\* failure of the directory drops the pool that was already built
New ==
    /\ sorter = "unbuilt"
    /\ \E how \in {"ok", "pool_fails", "dir_fails"} :
           /\ new_result' = CASE how = "ok" -> "Ok"
                              [] how = "pool_fails" -> "ThreadPoolBuildError"
                              [] how = "dir_fails" -> "TempDir"
           /\ sorter' = IF how = "ok" THEN "alive" ELSE "failed"
           /\ thread_pool' = CASE how = "ok" -> "built"
                               [] how = "pool_fails" -> thread_pool
                               [] how = "dir_fails" -> "dropped"
           /\ tmp_dir' = IF how = "ok" THEN "exists" ELSE tmp_dir
    /\ UNCHANGED <<cfgVars, bufVars, sorts_running, callVars, merger, mergerVars,
                   open_files>>

\* drop of the sorter that leaves the directory behind
DropSorterKeepsDir ==
    /\ sorter = "alive"
    /\ pc \in {"idle", "done"}
    /\ sorter' = "dropped"
    /\ thread_pool' = "dropped"
    /\ UNCHANGED <<cfgVars, bufVars, new_result, tmp_dir, sorts_running, callVars,
                   merger, mergerVars, open_files>>

\* drop of the sorter: its fields are dropped, the thread pool and the
\* TempDir, whose drop removes the directory
DropSorter ==
    /\ sorter = "alive"
    /\ pc \in {"idle", "done"}
    /\ sorter' = "dropped"
    /\ thread_pool' = "dropped"
    /\ tmp_dir' = "deleted"
    /\ UNCHANGED <<cfgVars, bufVars, new_result, sorts_running, callVars, merger,
                   mergerVars, open_files>>

\* sort_by's entry: the first buffer and the empty vector of runs
SortBegin ==
    /\ sorter = "alive"
    /\ pc = "idle"
    /\ pc' = "loop"
    /\ chunk_buf' = BufferBuild
    /\ capacity' = BuilderCapacity
    /\ current_size' = 0
    /\ external_chunks' = <<>>
    /\ UNCHANGED <<cfgVars, drained, sorterVars, pos, last_seal, result, merger,
                   mergerVars, open_files>>

\* PullOk with the is_full test made before the push
PullOkTestsBeforePush ==
    /\ pc = "loop"
    /\ pos < Len(input)
    /\ input[pos + 1].t = "Ok"
    /\ pos' = pos + 1
    /\ chunk_buf' = push(chunk_buf, input[pos + 1].v)
    /\ capacity' = reserve(capacity, Len(chunk_buf))
    /\ current_size' = IF policy = "memory"
                        THEN mem_push(current_size, input[pos + 1].v)
                        ELSE current_size
    /\ last_seal' = FALSE
    /\ pc' = IF full(chunk_buf, current_size) THEN "sort" ELSE "loop"
    /\ UNCHANGED <<cfgVars, drained, sorterVars, external_chunks, result, merger,
                   mergerVars, open_files>>

\* one turn of sort_by's loop on an Ok outcome: push, then the is_full test
PullOk ==
    /\ pc = "loop"
    /\ pos < Len(input)
    /\ input[pos + 1].t = "Ok"
    /\ pos' = pos + 1
    /\ chunk_buf' = push(chunk_buf, input[pos + 1].v)
    /\ capacity' = reserve(capacity, Len(chunk_buf))
    /\ current_size' = IF policy = "memory"
                        THEN mem_push(current_size, input[pos + 1].v)
                        ELSE current_size
    /\ last_seal' = FALSE
    /\ pc' = IF full(chunk_buf', current_size') THEN "sort" ELSE "loop"
    /\ UNCHANGED <<cfgVars, drained, sorterVars, external_chunks, result, merger,
                   mergerVars, open_files>>

\* PullErr that skips the error and goes on with the loop
PullErrSkipped ==
    /\ pc = "loop"
    /\ pos < Len(input)
    /\ input[pos + 1].t = "Err"
    /\ pos' = pos + 1
    /\ UNCHANGED <<cfgVars, bufVars, sorterVars, pc, chunk_buf, last_seal, external_chunks,
                   result, merger, mergerVars, open_files>>

\* sort_by's return on an Err outcome; the runs built so far are dropped
PullErr ==
    /\ pc = "loop"
    /\ pos < Len(input)
    /\ input[pos + 1].t = "Err"
    /\ pos' = pos + 1
    /\ result' = [t |-> "InputError", v |-> input[pos + 1].v]
    /\ pc' = "done"
    /\ chunk_buf' = <<>>
    /\ capacity' = 0
    /\ current_size' = 0
    /\ open_files' = drop_chunks(open_files, external_chunks)
    /\ external_chunks' = <<>>
    /\ UNCHANGED <<cfgVars, drained, sorterVars, last_seal, merger, mergerVars>>

\* InputEnd that never seals the remainder
InputEndDropsRemainder ==
    /\ pc = "loop"
    /\ pos = Len(input)
    /\ last_seal' = TRUE
    /\ pc' = "return"
    /\ UNCHANGED <<cfgVars, bufVars, sorterVars, pos, chunk_buf, external_chunks, result,
                   merger, mergerVars, open_files>>

\* InputEnd that seals the remainder even when it is empty
InputEndSealsEmpty ==
    /\ pc = "loop"
    /\ pos = Len(input)
    /\ last_seal' = TRUE
    /\ pc' = "sort"
    /\ UNCHANGED <<cfgVars, bufVars, sorterVars, pos, chunk_buf, external_chunks, result,
                   merger, mergerVars, open_files>>

\* the input is exhausted: a non-empty remainder is sealed as the last run
InputEnd ==
    /\ pc = "loop"
    /\ pos = Len(input)
    /\ last_seal' = TRUE
    /\ pc' = IF Len(chunk_buf) > 0 THEN "sort" ELSE "return"
    /\ UNCHANGED <<cfgVars, bufVars, sorterVars, pos, chunk_buf, external_chunks, result,
                   merger, mergerVars, open_files>>

\* SortChunk that hands the sort to the pool and goes on without waiting
SortChunkSpawn ==
    /\ pc = "sort"
    /\ sorts_running' = sorts_running + 1
    /\ pc' = "build"
    /\ UNCHANGED <<cfgVars, bufVars, sorter, new_result, tmp_dir, thread_pool, pos,
                   chunk_buf, last_seal, external_chunks, result, merger, mergerVars,
                   open_files>>

\* create_chunk, first half: thread_pool.install hands the sort of the
\* buffer to the pool and blocks the caller
SortChunk ==
    /\ pc = "sort"
    /\ sorts_running' = sorts_running + 1
    /\ pc' = "sorting"
    /\ UNCHANGED <<cfgVars, bufVars, sorter, new_result, tmp_dir, thread_pool, pos,
                   chunk_buf, last_seal, external_chunks, result, merger, mergerVars,
                   open_files>>

\* the pool's workers have sorted the buffer: install returns
SortJoin ==
    /\ pc = "sorting"
    /\ sorts_running > 0
    /\ chunk_buf' = par_sort_by(reversed, chunk_buf)
    /\ sorts_running' = sorts_running - 1
    /\ pc' = "build"
    /\ UNCHANGED <<cfgVars, bufVars, sorter, new_result, tmp_dir, thread_pool, pos,
                   last_seal, external_chunks, result, merger, mergerVars, open_files>>

\* what ExternalChunk::build may return besides a run: an IO error of the
\* file's creation (code 1), the codec's error of dump (code 2), an IO
\* error of the flush, the rewind or the length query (code 3)
BuildFailures ==
    {[kind |-> "IO", code |-> 1],
     [kind |-> "SerializationError", code |-> 2],
     [kind |-> "IO", code |-> 3]}

\* map_err that turns every build error into the IO variant
map_err_all_io(e) == [t |-> "IO", v |-> <<e.code, 0>>]

\* create_chunk's map_err closure: the variant of the same name around the
\* same error
map_err(e) ==
    IF e.kind = "IO" THEN [t |-> "IO", v |-> <<e.code, 0>>]
    ELSE [t |-> "SerializationError", v |-> <<e.code, 0>>]

\* create_chunk, second half: ExternalChunk::build spills the buffer
BuildChunk ==
    /\ pc = "build"
    /\ \E how \in {[kind |-> "Ok", code |-> 0]} \cup BuildFailures :
           IF how.kind = "Ok"
           THEN /\ external_chunks' = push_chunk(external_chunks,
                                                ChunkOfFile(chunk_buf))
                /\ open_files' = open_files + 1
                /\ chunk_buf' = BufferBuild
                /\ capacity' = IF last_seal THEN 0 ELSE BuilderCapacity
                /\ pc' = IF last_seal THEN "return" ELSE "loop"
                /\ UNCHANGED result
           ELSE /\ result' = map_err(how)
                /\ pc' = "done"
                /\ chunk_buf' = <<>>
                /\ capacity' = 0
                /\ open_files' = drop_chunks(open_files, external_chunks)
                /\ external_chunks' = <<>>
    /\ current_size' = 0
    /\ UNCHANGED <<cfgVars, drained, sorterVars, pos, last_seal, merger, mergerVars>>

\* sort_by's last line: BinaryHeapMerger::new over the runs
ReturnMerger ==
    /\ pc = "return"
    /\ chunks' = external_chunks
    /\ items' = <<>>
    /\ initiated' = FALSE
    /\ pulls' = 0
    /\ merger' = "alive"
    /\ result' = [t |-> "Ok", v |-> <<0, 0>>]
    /\ pc' = "done"
    /\ external_chunks' = <<>>
    /\ UNCHANGED <<cfgVars, bufVars, sorterVars, pos, chunk_buf, last_seal, output, last,
                   open_files>>

(* --------------------------- specification ----------------------------- *)
\* the outcomes the input may hold at position i
OutcomesAt(i) == {Ok(<<k, i>>) : k \in Keys} \cup {Err(<<0, i>>)}

RECURSIVE InputsOfLen(_)
InputsOfLen(n) ==
    IF n = 0 THEN {<<>>}
    ELSE {Append(s, o) : s \in InputsOfLen(n - 1), o \in OutcomesAt(n)}

Inputs == UNION {InputsOfLen(n) : n \in 0..MaxLen}

Init ==
    /\ input \in Inputs
    /\ limit \in 0..MaxLimit
    /\ reversed \in BOOLEAN
    /\ policy = "count"
    /\ preallocate \in BOOLEAN
    /\ sorter = "unbuilt"
    /\ new_result = "none"
    /\ tmp_dir = "none"
    /\ thread_pool = "none"
    /\ sorts_running = 0
    /\ open_files = 0
    /\ pc = "idle"
    /\ pos = 0
    /\ chunk_buf = <<>>
    /\ capacity = 0
    /\ current_size = 0
    /\ drained = <<>>
    /\ last_seal = FALSE
    /\ external_chunks = <<>>
    /\ result = None
    /\ merger = "none"
    /\ chunks = <<>>
    /\ items = <<>>
    /\ initiated = FALSE
    /\ pulls = 0
    /\ output = <<>>
    /\ last = NoCall

Next ==
    \/ New
    \/ DropSorter
    \/ SortBegin
    \/ PullOk
    \/ PullErr
    \/ InputEnd
    \/ SortChunk
    \/ SortJoin
    \/ BuildChunk
    \/ ReturnMerger
    \/ MergerNext
    \/ DropMerger

Spec == Init /\ [][Next]_vars

(* ----------------------- the merger on its own ------------------------- *)
\* the tag of the item at position p of run r
RunTag(r, p) == r * 10 + p

\* the outcomes run r may hold at position p
RunOutcomesAt(r, p) ==
    {Ok(<<k, RunTag(r, p)>>) : k \in MergeKeys} \cup {Err(<<r, p>>)}

RECURSIVE RunsOfLen(_, _)
RunsOfLen(r, n) ==
    IF n = 0 THEN {<<>>}
    ELSE {Append(s, o) : s \in RunsOfLen(r, n - 1), o \in RunOutcomesAt(r, n)}

\* the fallible sequences that may be run r: their Ok items are in order
\* under the comparator, as BinaryHeapMerger::new asks
SortedRuns(r, rev) ==
    {s \in UNION {RunsOfLen(r, n) : n \in 0..MaxRunLen} :
        \A i, j \in 1..Len(s) :
            (i < j /\ s[i].t = "Ok" /\ s[j].t = "Ok")
                => compare(rev, s[i].v, s[j].v) # "Greater"}

RECURSIVE RunVectors(_, _)
RunVectors(k, rev) ==
    IF k = 0 THEN {<<>>}
    ELSE {Append(cs, ChunkOfVec(s)) :
              cs \in RunVectors(k - 1, rev), s \in SortedRuns(k, rev)}

\* BinaryHeapMerger::new over up to MaxRuns in-memory runs, as test_merger
MergerInit ==
    /\ reversed \in BOOLEAN
    /\ \E k \in 0..MaxRuns : chunks \in RunVectors(k, reversed)
    /\ items = <<>>
    /\ initiated = FALSE
    /\ pulls = 0
    /\ merger = "alive"
    /\ output = <<>>
    /\ last = NoCall
    /\ input = <<>>
    /\ limit = 0
    /\ policy = "count"
    /\ preallocate = FALSE
    /\ sorter = "unbuilt"
    /\ new_result = "none"
    /\ tmp_dir = "none"
    /\ thread_pool = "none"
    /\ sorts_running = 0
    /\ open_files = 0
    /\ pc = "idle"
    /\ pos = 0
    /\ chunk_buf = <<>>
    /\ capacity = 0
    /\ current_size = 0
    /\ drained = <<>>
    /\ last_seal = FALSE
    /\ external_chunks = <<>>
    /\ result = None

MergerStep ==
    \/ MergerNext
    \/ DropMerger

MergerSpec == MergerInit /\ [][MergerStep]_vars

\* how many elements the runs hold altogether
RECURSIVE TotalLen(_)
TotalLen(cs) ==
    IF cs = <<>> THEN 0 ELSE Len(cs[1].data) + TotalLen(Tail(cs))

\* test_merger's merger: BinaryHeapMerger::new(chunks, i32::cmp), the
\* ascending comparator, over runs of no more elements altogether than an
\* input has
MergerLiveInit == MergerInit /\ ~reversed /\ TotalLen(chunks) <= MaxLen

\* a caller that goes on calling next(): every call that would change
\* something is made in the end
MergerLiveSpec == MergerLiveInit /\ [][MergerNext]_vars /\ WF_vars(MergerNext)

(* ---------------------- a run file on its own -------------------------- *)
\* the items a run file may be built from
CodecItems == {Ok(<<a, b>>) : a \in CodecInts, b \in CodecInts}

RECURSIVE CodecInputsOfLen(_)
CodecInputsOfLen(n) ==
    IF n = 0 THEN {<<>>}
    ELSE {Append(s, o) : s \in CodecInputsOfLen(n - 1), o \in CodecItems}

\* the items of a sequence of Ok outcomes
ItemsOf(outs) == [i \in 1..Len(outs) |-> outs[i].v]

CodecInit ==
    /\ input \in UNION {CodecInputsOfLen(n) : n \in 0..MaxChunkLen}
    /\ pc = "codec_build"
    /\ chunks = <<>>
    /\ items = <<>>
    /\ initiated = FALSE
    /\ pulls = 0
    /\ merger = "none"
    /\ output = <<>>
    /\ last = NoCall
    /\ reversed = FALSE
    /\ limit = 0
    /\ policy = "count"
    /\ preallocate = FALSE
    /\ sorter = "alive"
    /\ new_result = "Ok"
    /\ tmp_dir = "exists"
    /\ thread_pool = "built"
    /\ sorts_running = 0
    /\ open_files = 0
    /\ pos = 0
    /\ chunk_buf = <<>>
    /\ capacity = 0
    /\ current_size = 0
    /\ drained = <<>>
    /\ last_seal = FALSE
    /\ external_chunks = <<>>
    /\ result = None

\* test_rmp_chunk: ExternalChunk::build of the saved items
CodecBuild ==
    /\ pc = "codec_build"
    /\ chunks' = <<ChunkOfFile(ItemsOf(input))>>
    /\ open_files' = open_files + 1
    /\ pc' = "codec_read"
    /\ UNCHANGED <<cfgVars, bufVars, sorterVars, pos, chunk_buf, last_seal, external_chunks,
                   result, merger, items, initiated, output, last, pulls>>

\* test_rmp_chunk: one next() of the chunk as collect() drives it, which
\* stops at end-of-sequence and at the first error
CodecRead ==
    /\ pc = "codec_read"
    /\ last.t \notin {"None", "Err"}
    /\ LET r == ChunkNext(chunks[1])
       IN  /\ chunks' = <<r.chunk>>
           /\ Yield(r.out)
    /\ UNCHANGED <<cfgVars, bufVars, sorterVars, callVars, merger, items, initiated,
                   pulls, open_files>>

CodecStep ==
    \/ CodecBuild
    \/ CodecRead

CodecSpec == CodecInit /\ [][CodecStep]_vars

(* ------------------------- auxiliary notions --------------------------- *)
\* the input holds no error
ErrorFree == \A i \in 1..Len(input) : input[i].t = "Ok"

\* the merger has been iterated to end-of-sequence
Exhausted == last.t = "None"

\* every value the merger has yielded is an Ok
AllOk(outs) == \A i \in 1..Len(outs) : outs[i].t = "Ok"

\* how often outcome o occurs in the sequence s
Count(s, o) == Cardinality({i \in 1..Len(s) : s[i] = o})

\* the two sequences hold the same outcomes, each as often
SameMultiset(s, u) ==
    /\ Len(s) = Len(u)
    /\ \A i \in 1..Len(s) : Count(s, s[i]) = Count(u, s[i])

\* the Ok values of outs never decrease under the comparator
NonDecreasing(rev, outs) ==
    \A i, j \in 1..Len(outs) :
        (i < j /\ outs[i].t = "Ok" /\ outs[j].t = "Ok")
            => compare(rev, outs[i].v, outs[j].v) # "Greater"

\* position of the first error of the input, 0 when there is none
FirstErr ==
    IF ErrorFree THEN 0
    ELSE CHOOSE i \in 1..Len(input) :
             input[i].t = "Err" /\ \A j \in 1..(i - 1) : input[j].t = "Ok"

(* ------------------------------- claims -------------------------------- *)
\* C1: for an error-free input, either comparator and a count limit N >= 1,
\* the items the merger returned from sort_by yields, iterated to
\* end-of-sequence, are all Ok and non-decreasing under the comparator.
C1_OutputSorted ==
    (ErrorFree /\ limit >= 1 /\ Exhausted)
        => (AllOk(output) /\ NonDecreasing(reversed, output))

\* C1 witness: a reversed sort of three items spilled into several runs and
\* merged to the end, the input not being in order already
C1_Witness ==
    /\ ErrorFree /\ limit >= 1 /\ Exhausted
    /\ reversed
    /\ Len(output) >= 3
    /\ Len(chunks) >= 2
    /\ ~NonDecreasing(reversed, input)

\* C2: for an error-free input the merger, iterated to end-of-sequence, has
\* yielded exactly the multiset of the input's items: nothing lost,
\* duplicated, invented or de-duplicated.
C2_OutputIsPermutation ==
    (ErrorFree /\ Exhausted) => SameMultiset(output, input)

\* C2 witness: three items, two of them with the same key, merged to the end
\* from more than one run
C2_Witness ==
    /\ ErrorFree /\ Exhausted
    /\ Len(input) >= 3
    /\ Len(output) = Len(input)
    /\ Len(chunks) >= 2
    /\ \E i, j \in 1..Len(input) : i # j /\ input[i].v[1] = input[j].v[1]

\* C3: the sort is stable: of two items that compare Equal, the one earlier
\* in the input (the smaller tag) is yielded first, whether the two were
\* spilled into one run or into two.
C3_Stable ==
    (ErrorFree /\ Exhausted) =>
        \A i, j \in 1..Len(output) :
            (i < j /\ output[i].t = "Ok" /\ output[j].t = "Ok"
                   /\ compare(reversed, output[i].v, output[j].v) = "Equal")
                => output[i].v[2] < output[j].v[2]

\* C3 witness: three items with one key under limit 2: the first two share a
\* run, the third sits in the next one
C3_Witness ==
    /\ ErrorFree /\ Exhausted
    /\ limit = 2
    /\ Len(chunks) = 2
    /\ Len(output) = 3
    /\ \A i \in 1..3 : input[i].v[1] = input[1].v[1]

\* C6 as stated: once the merger is dropped, the temporary directory and
\* all run files are gone, even with the sorter still alive.
C6_MergerDropReleasesAll ==
    merger = "dropped" => (tmp_dir = "deleted" /\ open_files = 0)

\* C6 amended: once the merger is dropped no run file exists any more; the
\* temporary directory belongs to the sorter and is gone exactly when the
\* sorter has been dropped.
C6_MergerDropClosesRuns ==
    merger = "dropped" =>
        (open_files = 0 /\ (tmp_dir = "deleted" <=> sorter = "dropped"))

\* C6 witness: a merger over two runs dropped before it was consumed to the
\* end, the sorter being still alive
C6_Witness ==
    /\ merger = "dropped"
    /\ sorter = "alive"
    /\ ~Exhausted
    /\ Len(output) >= 1
    /\ Len(input) >= 3 /\ limit = 2

\* C7: once the input has yielded an error at position i, sort_by has
\* returned InputError with that very error and no merger, and no input
\* past position i is pulled, then or later, however many runs were sealed
\* before.
C7_InputErrorFailFast ==
    ~ErrorFree =>
        /\ pos <= FirstErr
        /\ pos = FirstErr =>
               /\ pc = "done"
               /\ result.t = "InputError"
               /\ result.v = input[FirstErr].v
               /\ merger = "none"
               /\ chunks = <<>>

\* C7 witness: the error is the third outcome, two runs were sealed before
\* it, and a fourth outcome is left unpulled
C7_Witness ==
    /\ result.t = "InputError"
    /\ limit = 1
    /\ pos = 3
    /\ Len(input) > pos

\* C8: sorting the empty input returns Ok with a merger whose first next()
\* is end-of-sequence, no error; no run file is created at any point.
C8_EmptyInput ==
    input = <<>> =>
        /\ open_files = 0 /\ external_chunks = <<>> /\ chunks = <<>>
        /\ pc = "done" => (result.t = "Ok" /\ merger # "none")
        /\ last.t # "NoCall" => (last.t = "None" /\ output = <<>>)

\* C8 witness: the merger of an empty input has answered a next()
C8_Witness == input = <<>> /\ pc = "done" /\ merger = "alive" /\ last.t = "None"

\* C10: under the count limit N (N >= 0) the active buffer never holds more
\* than N + 1 items.
C10_BufferBound == Len(chunk_buf) <= limit + 1

\* C10 witness: with N = 0 the buffer about to be sealed holds N + 1 items
C10_Witness == pc = "sort" /\ limit = 0 /\ Len(chunk_buf) = limit + 1 /\ pos >= 2

(* --------------------- claims about the merger ------------------------- *)
RECURSIVE ConcatRuns(_)
\* the outcomes of all runs, run after run
ConcatRuns(cs) == IF cs = <<>> THEN <<>> ELSE Head(cs).data \o ConcatRuns(Tail(cs))

\* no run holds an error
RunsErrorFree == AllOk(ConcatRuns(chunks))

\* the places <<run, position>> of the errors in the runs
ErrPlaces ==
    {x \in (1..Len(chunks)) \X (1..MaxRunLen + 1) :
        x[2] <= Len(chunks[x[1]].data) /\ chunks[x[1]].data[x[2]].t = "Err"}

\* the Ok outcomes of a sequence, in order
RECURSIVE OkOnly(_)
OkOnly(outs) ==
    IF outs = <<>> THEN <<>>
    ELSE IF Head(outs).t = "Ok" THEN <<Head(outs)>> \o OkOnly(Tail(outs))
    ELSE OkOnly(Tail(outs))

\* C4: over k >= 0 error-free pre-sorted runs (empty ones allowed) the
\* merger, iterated to end-of-sequence, has yielded the sorted merge of all
\* their items: Ok values only, non-decreasing, the same multiset; when
\* there is no run or every run is empty the first next() is
\* end-of-sequence.
C4_MergeOfSortedRuns ==
    (merger = "alive" /\ RunsErrorFree) =>
        /\ Exhausted =>
               /\ AllOk(output)
               /\ NonDecreasing(reversed, output)
               /\ SameMultiset(output, ConcatRuns(chunks))
        /\ (ConcatRuns(chunks) = <<>> /\ last.t # "NoCall") =>
               (last.t = "None" /\ output = <<>>)

\* C4 witness: two error-free runs of two items each, merged to the end,
\* the first item yielded coming from the second run and the last from the
\* first
C4_Witness ==
    /\ merger = "alive" /\ RunsErrorFree /\ Exhausted
    /\ Len(chunks) = 2
    /\ Len(output) = 4
    /\ output[1].v[2] >= RunTag(2, 0)
    /\ output[4].v[2] < RunTag(2, 0)

\* C5: when exactly one run holds an error, after p Ok items, the merger's
\* output holds the first p minima of all runs' items (by the comparator)
\* and, after them, that error.
C5_FirstMinimaThenError ==
    (merger = "alive" /\ Cardinality(ErrPlaces) = 1
                      /\ \E q \in 1..Len(output) : output[q].t = "Err") =>
        LET place == CHOOSE x \in ErrPlaces : TRUE
            p == place[2] - 1
            q == CHOOSE q \in 1..Len(output) : output[q].t = "Err"
            minima == merge_sort(reversed, ItemsOf(OkOnly(ConcatRuns(chunks))))
        IN  /\ q > p
            /\ \A i \in 1..p :
                   /\ output[i].t = "Ok"
                   /\ compare(reversed, output[i].v, minima[i]) = "Equal"

(* --------------------- claims about the run file ----------------------- *)
\* the sequence s is a prefix of the sequence u
IsPrefix(s, u) == Len(s) <= Len(u) /\ \A i \in 1..Len(s) : s[i] = u[i]

\* C9: a chunk built from the items xs and iterated to end-of-sequence
\* yields exactly xs, element for element and in order, without an error
\* and without an extra element.
C9_CodecRoundTrip ==
    pc = "codec_read" =>
        /\ IsPrefix(output, input)
        /\ Exhausted => output = input
        /\ Len(output) < Len(input) => last.t # "None"

\* C9 witness: two items read back to the end, among their integers one
\* of three bytes and one negative of two bytes
C9_Witness ==
    /\ pc = "codec_read" /\ Exhausted
    /\ Len(output) = 2
    /\ output[1].v[1] = 300
    /\ output[2].v[2] = -100

(* ------------------------ a buffer on its own -------------------------- *)
\* the byte limits of a MemoryLimitedBufferBuilder: none, one that two
\* items reach exactly, and the limit of test_memory_limited_buffer
MemLimits == {0, 65, 76}

\* the items pushed so far, in the order of the pushes
Pushed == [i \in 1..pos |-> input[i].v]

RECURSIVE SumSizes(_)
\* the sum of the deep sizes of a sequence of items
SumSizes(s) == IF s = <<>> THEN 0 ELSE deep_size_of(Head(s)) + SumSizes(Tail(s))

\* a builder of either kind, the buffer it builds, and the items that
\* will be pushed
BufferInit ==
    /\ policy \in {"count", "memory"}
    /\ limit \in IF policy = "count" THEN 0..MaxLimit ELSE MemLimits
    /\ preallocate \in IF policy = "count" THEN BOOLEAN ELSE {FALSE}
    /\ input \in {s \in Inputs : AllOk(s)}
    /\ reversed \in BOOLEAN
    /\ pc = "buf_fill"
    /\ pos = 0
    /\ chunk_buf = BufferBuild
    /\ capacity = IF policy = "count" THEN BuildCapacity(limit, preallocate) ELSE 0
    /\ current_size = 0
    /\ drained = <<>>
    /\ sorter = "unbuilt"
    /\ new_result = "none"
    /\ tmp_dir = "none"
    /\ thread_pool = "none"
    /\ sorts_running = 0
    /\ open_files = 0
    /\ last_seal = FALSE
    /\ external_chunks = <<>>
    /\ result = None
    /\ merger = "none"
    /\ chunks = <<>>
    /\ items = <<>>
    /\ initiated = FALSE
    /\ pulls = 0
    /\ output = <<>>
    /\ last = NoCall

\* push of either buffer
BufPush ==
    /\ pc = "buf_fill"
    /\ pos < Len(input)
    /\ pos' = pos + 1
    /\ chunk_buf' = push(chunk_buf, input[pos + 1].v)
    /\ capacity' = reserve(capacity, Len(chunk_buf))
    /\ current_size' = IF policy = "memory"
                        THEN mem_push(current_size, input[pos + 1].v)
                        ELSE current_size
    /\ UNCHANGED <<cfgVars, sorterVars, pc, drained, last_seal, external_chunks,
                   result, merger, mergerVars, open_files>>

\* a sort of the buffer in place, through as_parallel_slice_mut
BufSort ==
    /\ pc = "buf_fill"
    /\ chunk_buf' = par_sort_by(reversed, chunk_buf)
    /\ pc' = "buf_sorted"
    /\ UNCHANGED <<cfgVars, bufVars, sorterVars, pos, last_seal, external_chunks,
                   result, merger, mergerVars, open_files>>

\* the buffer is consumed by into_iter and iterated to the end
BufDrain ==
    /\ pc \in {"buf_fill", "buf_sorted"}
    /\ drained' = into_iter(chunk_buf)
    /\ chunk_buf' = <<>>
    /\ capacity' = 0
    /\ pc' = IF pc = "buf_fill" THEN "buf_drained" ELSE "buf_drained_sorted"
    /\ UNCHANGED <<cfgVars, current_size, sorterVars, pos, last_seal,
                   external_chunks, result, merger, mergerVars, open_files>>

BufferStep ==
    \/ BufPush
    \/ BufSort
    \/ BufDrain

BufferSpec == BufferInit /\ [][BufferStep]_vars

\* C11: a count-limited buffer of limit N is full exactly when it holds at
\* least N items, after every sequence of pushes and for both values of the
\* preallocate flag.
C11_CountFullAtLimit ==
    (policy = "count" /\ pc = "buf_fill")
        => (is_full(chunk_buf, limit) <=> pos >= limit)

\* a buffer built with preallocate set has just become full at its limit
C11_Witness ==
    /\ policy = "count"
    /\ pc = "buf_fill"
    /\ preallocate
    /\ limit = MaxLimit
    /\ pos = limit
    /\ is_full(chunk_buf, limit)

\* C12: a memory-limited buffer's running size equals the sum of the deep
\* sizes of the items pushed since it was built, after every push, and the
\* buffer is full exactly when that sum has reached the byte limit.
C12_MemoryFullAtLimit ==
    (policy = "memory" /\ pc = "buf_fill")
        => /\ current_size = SumSizes(Pushed)
           /\ mem_is_full(current_size, limit) <=> SumSizes(Pushed) >= limit

\* two items of different sizes have reached the byte limit exactly
C12_Witness ==
    /\ policy = "memory"
    /\ pc = "buf_fill"
    /\ limit > 0
    /\ pos = 2
    /\ current_size = limit
    /\ deep_size_of(chunk_buf[1]) # deep_size_of(chunk_buf[2])
    /\ mem_is_full(current_size, limit)

\* C13: a drained buffer, of either kind, has yielded the items pushed
\* since it was built, each as often as it was pushed, and in the order
\* of the pushes when the buffer was not sorted in between.
C13_DrainYieldsPushed ==
    (pc \in {"buf_drained", "buf_drained_sorted"})
        => /\ SameMultiset(drained, Pushed)
           /\ pc = "buf_drained" => drained = Pushed

\* a memory-limited buffer drained without a sort, its items out of order
C13_Witness ==
    /\ pc = "buf_drained"
    /\ policy = "memory"
    /\ Len(drained) >= 3
    /\ drained[1][1] > drained[2][1]
    /\ drained = Pushed

\* C14: a count-limited buffer built with preallocate set has its limit's
\* worth of slots reserved at creation, and one built without it has no
\* reserved capacity.
C14_PreallocateReservesLimit ==
    (policy = "count" /\ pc = "buf_fill" /\ pos = 0)
        => capacity = IF preallocate THEN limit ELSE 0

\* C16: the temporary directory created at the sorter's construction is
\* deleted once the sorter is disposed, whether sort_by was never called,
\* returned a merger or failed with any error; until then it exists.
C16_TmpDirDeletedOnDrop ==
    /\ sorter = "dropped" => tmp_dir = "deleted"
    /\ sorter = "alive" => tmp_dir = "exists"
    /\ sorter \in {"unbuilt", "failed"} => tmp_dir = "none"

\* the sorter is disposed after sort_by failed on building a run
C16_Witness ==
    /\ sorter = "dropped"
    /\ pc = "done"
    /\ result.t \in {"IO", "SerializationError"}
    /\ pos >= 2
    /\ tmp_dir = "deleted"

\* C17: construction builds the thread pool before the temporary
\* directory: when the pool fails the ThreadPoolBuildError is returned and
\* no directory was ever created; when the pool is built and the directory
\* fails the TempDir error is returned.
C17_PoolBeforeTmpDir ==
    /\ new_result = "ThreadPoolBuildError"
           => (sorter = "failed" /\ thread_pool = "none" /\ tmp_dir = "none")
    /\ new_result = "TempDir"
           => (sorter = "failed" /\ thread_pool = "dropped" /\ tmp_dir = "none")
    /\ new_result = "Ok"
           => (thread_pool # "none" /\ tmp_dir # "none")

\* the construction failed on the thread pool
C17_Witness ==
    /\ new_result = "ThreadPoolBuildError"
    /\ sorter = "failed"
    /\ thread_pool = "none"
    /\ tmp_dir = "none"

(* ---------------------- damaged run files ------------------------------ *)
\* run i's file is shorter than the length its reader was limited to
TruncatedRun(i) ==
    /\ chunks[i].kind = "file"
    /\ Len(chunks[i].data) < chunks[i].off + chunks[i].limit

Truncated == \E i \in 1..Len(chunks) : TruncatedRun(i)

\* the environment cuts one run file short, to any length, after sort_by
\* has built it and before the merger is iterated; the reader keeps the
\* limit it took from the file's length at build time
Truncate ==
    /\ merger = "alive"
    /\ last = NoCall
    /\ ~Truncated
    /\ \E i \in 1..Len(chunks) :
           /\ chunks[i].kind = "file"
           /\ \E n \in 0..(Len(chunks[i].data) - 1) :
                  chunks' = [chunks EXCEPT ![i].data = SubSeq(@, 1, n)]
    /\ UNCHANGED <<cfgVars, bufVars, sorterVars, callVars, merger, items, initiated,
                   output, last, pulls, open_files>>

\* next() for as long as the caller goes on asking
FaultMergerNext ==
    /\ Len(output) < MaxLen + MaxRepeat
    /\ MergerNext

FaultNext ==
    \/ New
    \/ SortBegin
    \/ PullOk
    \/ PullErr
    \/ InputEnd
    \/ SortChunk
    \/ SortJoin
    \/ BuildChunk
    \/ ReturnMerger
    \/ Truncate
    \/ FaultMergerNext

FaultSpec == Init /\ [][FaultNext]_vars

\* the number of errors among outcomes
NumErrs(outs) == Cardinality({i \in 1..Len(outs) : outs[i].t = "Err"})

\* C15: sort_by fails with an input error, an IO error or a serialization
\* error only, and then returns no merger; a decoding failure met while a
\* run is read shows as an Err element of the merger's output, after
\* sort_by has returned Ok.
C15_DecodeErrorInOutputOnly ==
    /\ result.t \in {"None", "Ok", "InputError", "IO", "SerializationError"}
    /\ result.t \in {"InputError", "IO", "SerializationError"}
           => (merger = "none" /\ output = <<>>)
    /\ last.t = "Err" => (result.t = "Ok" /\ output[Len(output)] = last)
    /\ (Truncated /\ Exhausted) => (result.t = "Ok" /\ NumErrs(output) >= 1)

\* a merger over a damaged run file has emitted items and the decoding
\* failure, and has reached the end
C15_Witness ==
    /\ Truncated
    /\ Exhausted
    /\ result.t = "Ok"
    /\ NumErrs(output) = 1
    /\ Len(output) >= 3

\* C18: when one run file was cut short after it was built, wherever the
\* cut falls, the merger emits the decoding error of that run once, at the
\* cut, and goes on merging the other runs: it reaches end-of-sequence
\* with every item of the other runs emitted.
C18_TruncationOneErrorThenRest ==
    (merger = "alive" /\ Truncated)
        => /\ NumErrs(output) <= 1
           /\ Exhausted => NumErrs(output) = 1

(* ------------------------ the merger's heap ---------------------------- *)
\* C19: the item popped in a merge step is always returned: once the
\* merger has reached end-of-sequence, every item it pulled from a run
\* has been emitted, also when the pull that followed it in the same run
\* gave an error.
C19_PulledItemsEmitted ==
    (merger = "alive" /\ Exhausted)
        => \A r \in 1..Len(chunks) : \A j \in 1..chunks[r].off :
               chunks[r].data[j].t = "Ok"
                   => \E i \in 1..Len(output) : output[i] = chunks[r].data[j]

RunOf(item) == item[2] \div 10
PlaceOf(item) == item[2] % 10

\* C21: a run that gave an error during the initial population is closed:
\* it is never pulled from again, and the calls after the error do not
\* pull a second head from a run whose head was already taken, so until
\* the population is complete no run has been pulled from twice.
C21_InitErrorClosesRun ==
    merger = "alive"
        => /\ \A r \in 1..Len(chunks) : \A j \in 1..(chunks[r].off - 1) :
                  chunks[r].data[j].t # "Err"
           /\ ~initiated => \A r \in 1..Len(chunks) : chunks[r].off <= 1

\* C22: an error pulled from run r is emitted, and no heap entry of run r
\* is pushed after it: no entry of the heap carries an item that sits
\* behind an error in its run.
C22_NoEntryAfterRunError ==
    merger = "alive"
        => /\ \A r \in 1..Len(chunks) : \A j \in 1..chunks[r].off :
                  chunks[r].data[j].t = "Err"
                      => \E i \in 1..Len(output) : output[i] = chunks[r].data[j]
           /\ \A e \in 1..Len(items) :
                  \A j \in 1..(PlaceOf(items[e][1]) - 1) :
                      chunks[items[e][2]].data[j].t # "Err"

\* C23: of heap entries whose items compare Equal the one of the smallest
\* run index is popped first: with error-free runs, items that compare
\* Equal and come from different runs are emitted in ascending order of
\* their runs' indices.
C23_TiesByRunIndex ==
    (merger = "alive" /\ RunsErrorFree)
        => \A i, j \in 1..Len(output) :
               (i < j /\ compare(reversed, output[i].v, output[j].v) = "Equal")
                   => RunOf(output[i].v) <= RunOf(output[j].v)

\* both runs hold items of one key, and all of them have been emitted
C23_Witness ==
    /\ merger = "alive"
    /\ RunsErrorFree
    /\ Exhausted
    /\ Len(chunks) = 2
    /\ Len(output) >= 3
    /\ \A i, j \in 1..Len(output) :
           compare(reversed, output[i].v, output[j].v) = "Equal"
    /\ RunOf(output[1].v) = 1
    /\ RunOf(output[Len(output)].v) = 2

(* ---------------------- runs and the directory ------------------------- *)
\* C24: a run never outlives the temporary directory: whenever a merger
\* or a running sort_by holds an open run file, the sorter's temporary
\* directory exists, also when the sorter is dropped before the merger.
C24_RunWithinTmpDirLifetime ==
    open_files > 0 => tmp_dir = "exists"

(* ------------------- the sorter with either buffer --------------------- *)
\* the sorter's initial state with a builder of either kind
PolicyInit ==
    /\ policy \in {"count", "memory"}
    /\ input \in Inputs
    /\ limit \in IF policy = "count" THEN 0..MaxLimit ELSE MemLimits
    /\ reversed \in BOOLEAN
    /\ preallocate \in IF policy = "count" THEN BOOLEAN ELSE {FALSE}
    /\ sorter = "unbuilt"
    /\ new_result = "none"
    /\ tmp_dir = "none"
    /\ thread_pool = "none"
    /\ sorts_running = 0
    /\ open_files = 0
    /\ pc = "idle"
    /\ pos = 0
    /\ chunk_buf = <<>>
    /\ capacity = 0
    /\ current_size = 0
    /\ drained = <<>>
    /\ last_seal = FALSE
    /\ external_chunks = <<>>
    /\ result = None
    /\ merger = "none"
    /\ chunks = <<>>
    /\ items = <<>>
    /\ initiated = FALSE
    /\ pulls = 0
    /\ output = <<>>
    /\ last = NoCall

PolicySpec == PolicyInit /\ [][Next]_vars

\* C25: sort_by never pushes into a buffer that reports full: right before
\* every push the active buffer's is_full is false, for every limit, 0
\* included, with the count-limited and with the memory-limited buffer.
C25_NeverPushIntoFull ==
    (pc = "loop" /\ pos < Len(input) /\ input[pos + 1].t = "Ok")
        => ~full(chunk_buf, current_size)

\* C25, amended: with a limit of at least 1 the buffer is not full right
\* before a push, under both policies; with a limit of 0 every fresh
\* buffer is full before its first push and sort_by pushes all the same.
C25_NoPushIntoFullPositiveLimit ==
    pc = "loop"
        => /\ limit >= 1 => ~full(chunk_buf, current_size)
           /\ limit = 0 => (chunk_buf = <<>> /\ full(chunk_buf, current_size))

\* a memory-limited buffer that holds an item, with a run sealed before
\* it and an item about to be pushed
C25_Witness ==
    /\ policy = "memory"
    /\ limit >= 1
    /\ pc = "loop"
    /\ external_chunks # <<>>
    /\ chunk_buf # <<>>
    /\ pos < Len(input)
    /\ input[pos + 1].t = "Ok"
    /\ ~full(chunk_buf, current_size)

(* ------------------------------ the runs ------------------------------- *)
RECURSIVE DecodeAll(_)
\* the items a run file holds, decoded from its bytes front to back
DecodeAll(b) ==
    IF b = <<>> THEN <<>>
    ELSE LET d == DecodeItem(b)
         IN  IF d.t # "Ok" THEN <<>>
             ELSE <<d.v>> \o DecodeAll(SubSeq(b, d.n + 1, Len(b)))

\* the run list: sort_by's own while it runs, the merger's afterwards
Runs == IF merger = "alive" THEN chunks ELSE external_chunks

RunItems(i) == DecodeAll(Runs[i].data)

RECURSIVE ItemsBefore(_)
\* the number of items in the runs in front of run i
ItemsBefore(i) == IF i <= 1 THEN 0 ELSE ItemsBefore(i - 1) + Len(RunItems(i - 1))

\* the input's segment that run i was filled from
Segment(i) == [k \in 1..Len(RunItems(i)) |-> input[ItemsBefore(i) + k].v]

\* C26: the runs partition the input in order: run i holds exactly the
\* items of one contiguous segment of the input, the segments follow one
\* another in the order of the run list, and together with the active
\* buffer they make up what was pulled; a merger's runs make up the input.
C26_RunsPartitionInput ==
    (pc \in {"loop", "sort", "sorting", "build", "return"} \/ merger = "alive")
        => /\ ItemsBefore(Len(Runs) + 1) + Len(chunk_buf) = pos
           /\ \A i \in 1..Len(Runs) : SameMultiset(RunItems(i), Segment(i))
           /\ merger = "alive" => pos = Len(input)

\* three runs, the middle one filled from items that were out of order
C26_Witness ==
    /\ merger = "alive"
    /\ Len(chunks) = 3
    /\ Len(RunItems(2)) = 2
    /\ RunItems(2) # Segment(2)
    /\ RunItems(1) # RunItems(3)

\* C27: every run is sorted under the comparator, and stably: items of a
\* run that compare Equal are in the order they had in the input.
C27_RunsSortedStably ==
    \A i \in 1..Len(Runs) : \A a, b \in 1..Len(RunItems(i)) :
        a < b => /\ compare(reversed, RunItems(i)[a], RunItems(i)[b]) # "Greater"
                 /\ compare(reversed, RunItems(i)[a], RunItems(i)[b]) = "Equal"
                        => RunItems(i)[a][2] < RunItems(i)[b][2]

\* a run under the memory policy of three items, two of which compare
\* Equal, that came in out of order
C27_Witness ==
    /\ policy = "memory"
    /\ Len(Runs) >= 1
    /\ Len(RunItems(1)) = 3
    /\ RunItems(1) # Segment(1)
    /\ \E a, b \in 1..3 :
           a # b /\ compare(reversed, RunItems(1)[a], RunItems(1)[b]) = "Equal"

\* C28: with a count limit N >= 1 and an error-free input of n items
\* sort_by creates ceil(n / N) runs: all but the last hold N items and the
\* last one holds the remainder, which is not empty.
C28_RunCount ==
    (merger = "alive" /\ limit >= 1)
        => LET n == Len(input)
               k == (n + limit - 1) \div limit
           IN  /\ Len(chunks) = k
               /\ \A i \in 1..(k - 1) : Len(RunItems(i)) = limit
               /\ k >= 1 => (Len(RunItems(k)) = n - (k - 1) * limit
                              /\ Len(RunItems(k)) >= 1)

\* three items under limit 2: a full run and a run of the remainder
C28_Witness ==
    /\ merger = "alive"
    /\ limit = 2
    /\ Len(input) = 3
    /\ Len(chunks) = 2
    /\ Len(RunItems(1)) = 2
    /\ Len(RunItems(2)) = 1

(* ----------------------------- sealing --------------------------------- *)
\* the sort of the active buffer has completed
BufSorted ==
    \A a, b \in 1..Len(chunk_buf) :
        a < b => compare(reversed, chunk_buf[a], chunk_buf[b]) # "Greater"

\* what holds in every state while a buffer is sealed
SealingInOrder ==
    /\ sorts_running <= 1
    /\ sorts_running = 1 <=> pc = "sorting"
    /\ pc = "build" => BufSorted

\* what no step does while a sort is in progress
NothingMovesDuringSort ==
    sorts_running >= 1
        => /\ pos' = pos
           /\ external_chunks' = external_chunks
           /\ open_files' = open_files
           /\ sorts_running' <= 1

\* C29: sealing is sequenced on the calling thread: the build of a run
\* starts only when the pool has finished sorting that buffer, at most
\* one buffer is being sorted at a time, and while a sort is in progress
\* no input is pulled and no run is written.
C29_SealingSequenced == []SealingInOrder /\ [][NothingMovesDuringSort]_vars

\* a sort is in progress while runs exist and input is left to pull
C29_Witness ==
    /\ pc = "sorting"
    /\ sorts_running = 1
    /\ Len(external_chunks) >= 2
    /\ chunk_buf # <<>>
    /\ pos < Len(input)

(* -------------------------- build failures ----------------------------- *)
\* the errors of each kind that ExternalChunk::build may return
BuildErrs(kind) == {f.code : f \in {g \in BuildFailures : g.kind = kind}}

\* C30: when the build of a run fails, sort_by is over without a merger
\* and without a further pull, and what it returned is the IO variant
\* around the build's IO error or the SerializationError variant around
\* the codec's encoding error.
C30_BuildErrorSurfaced ==
    /\ result.t = "IO" => result.v[1] \in BuildErrs("IO")
    /\ result.t = "SerializationError"
           => result.v[1] \in BuildErrs("SerializationError")
    /\ result.t \in {"IO", "SerializationError"}
           => (pc = "done" /\ merger = "none" /\ pos >= 1)

\* the codec failed on the second run, with input left to pull
C30_Witness ==
    /\ result.t = "SerializationError"
    /\ result.v[1] \in BuildErrs("SerializationError")
    /\ pc = "done"
    /\ merger = "none"
    /\ pos >= 2
    /\ pos < Len(input)

(* ----------------------- runs of a failed call ------------------------- *)
\* C31: when sort_by has returned an error, of the input or of the build
\* of a run, every run built earlier in the call is discarded: no run file
\* of the call is open or held by anything.
C31_FailedCallDiscardsRuns ==
    result.t \in {"InputError", "IO", "SerializationError"}
        => /\ open_files = 0
           /\ external_chunks = <<>>
           /\ chunks = <<>>
           /\ merger = "none"

\* the input failed at its third outcome, after two runs had been built
C31_Witness ==
    /\ result.t = "InputError"
    /\ limit = 1
    /\ pos = 3
    /\ open_files = 0
    /\ external_chunks = <<>>

(* ------------------------ errors at the heads -------------------------- *)
\* the runs of a stand-alone merger whose first element is an error
HeadErrRuns ==
    {r \in 1..Len(chunks) :
        Len(chunks[r].data) >= 1 /\ chunks[r].data[1].t = "Err"}

\* where in the output the head error of run r is, 0 when it is not there
HeadErrAt(r) ==
    IF \E i \in 1..Len(output) : output[i] = chunks[r].data[1]
    THEN CHOOSE i \in 1..Len(output) : output[i] = chunks[r].data[1]
    ELSE 0

\* C32: when two or more runs have an error at their head, the first
\* next() returns the head error of the one with the lowest index, the
\* head error of every other such run is returned by a later call, none
\* is swallowed, and the head errors come out in ascending run order.
C32_HeadErrorsInRunOrder ==
    (merger = "alive" /\ Cardinality(HeadErrRuns) >= 2)
        => /\ Len(output) >= 1
                  => \E r \in HeadErrRuns :
                         /\ \A q \in HeadErrRuns : r <= q
                         /\ HeadErrAt(r) = 1
           /\ Exhausted => \A r \in HeadErrRuns : HeadErrAt(r) >= 1
           /\ \A r, q \in HeadErrRuns :
                  (r < q /\ HeadErrAt(q) >= 1)
                      => (HeadErrAt(r) >= 1 /\ HeadErrAt(r) < HeadErrAt(q))

\* both runs began with an error, the first had an item behind its error,
\* and the merger has reached the end
C32_Witness ==
    /\ merger = "alive"
    /\ Cardinality(HeadErrRuns) = 2
    /\ Exhausted
    /\ HeadErrAt(1) = 1
    /\ HeadErrAt(2) = 2
    /\ Len(output) >= 3

(* -------------------- order among the surviving items ------------------ *)
\* C34: over pre-sorted runs that yield errors at any position, the first
\* included, the Ok items the merger emits never decrease under the
\* comparator, whatever errors come out between them.
C34_OkSubsequenceSorted ==
    (merger = "alive" /\ ~RunsErrorFree)
        => \A i \in 1..Len(output) : \A j \in (i + 1)..Len(output) :
               (output[i].t = "Ok" /\ output[j].t = "Ok")
                   => compare(reversed, output[i].v, output[j].v) # "Greater"

\* the second run began with an error, which was the first thing returned;
\* three Ok items of both runs and of different keys followed, to the end
C34_Witness ==
    /\ merger = "alive"
    /\ Len(chunks) = 2
    /\ Len(chunks[2].data) >= 1
    /\ chunks[2].data[1].t = "Err"
    /\ Exhausted
    /\ Len(output) >= 1
    /\ output[1].t = "Err"
    /\ Cardinality({i \in 1..Len(output) : output[i].t = "Ok"}) = 3
    /\ \E i, j \in 1..Len(output) :
           /\ output[i].t = "Ok"
           /\ output[j].t = "Ok"
           /\ output[i].v[1] # output[j].v[1]
           /\ RunOf(output[i].v) # RunOf(output[j].v)

(* ---------------------------- termination ------------------------------ *)
\* C33: over any vector of finite fallible runs, values and errors in any
\* position, a caller that goes on calling next() is returned
\* end-of-sequence in the end, and from then on every next() returns
\* end-of-sequence again and asks no run for anything: the merger is as it
\* was.
C33_Termination ==
    /\ <>Exhausted
    /\ [][Exhausted => /\ last'.t = "None"
                       /\ pulls' = pulls
                       /\ chunks' = chunks
                       /\ items' = items
                       /\ output' = output]_vars

\* end-of-sequence came after two runs of two elements, an error at the
\* head of one and in the middle of the other, every element asked for
C33_Witness ==
    /\ merger = "alive"
    /\ Exhausted
    /\ Len(chunks) = 2
    /\ \A r \in 1..2 : Len(chunks[r].data) = 2 /\ chunks[r].off = 2
    /\ chunks[1].data[1].t = "Err"
    /\ chunks[2].data[2].t = "Err"
    /\ pulls >= 4
    /\ NumErrs(output) = 2

=============================================================================
